---- MODULE Spec2Model ----
(* Model of frontend/src/services/modelConfigService.ts: the tiered cache   *)
(* (memory entry, persisted localStorage entry, remote document, default    *)
(* dataset), the auto-refresh timer and the capability queries.             *)
(*                                                                          *)
(* Strings that the code inspects character by character (model ids and     *)
(* display names, the persisted timestamp) are sequences of one-character   *)
(* strings; strings that are only compared for equality are TLA+ strings.   *)
EXTENDS Integers, Sequences, FiniteSets, TLC

\* ---------------------------------------------------------------- bounds
\* number of loadConfig invocations that may be in flight at once
MaxCalls == 2
\* number of times the clock may advance in one behaviour
MaxAdvances == 2

\* ------------------------------------------------------ program constants
configCacheTTL == 600000
FetchTimeoutMs == 5000

\* ------------------------------------------------------- string helpers
\* String.prototype.includes
Includes(s, sub) ==
  \E i \in 1..(Len(s) + 1) :
     /\ i + Len(sub) - 1 <= Len(s)
     /\ SubSeq(s, i, i + Len(sub) - 1) = sub

UpperToLower ==
  [c \in {"A","B","C","D","E","F","G","I","L","M","N","O","P","T","X"} |->
     CASE c = "A" -> "a" [] c = "B" -> "b" [] c = "C" -> "c" [] c = "D" -> "d"
       [] c = "E" -> "e" [] c = "F" -> "f" [] c = "G" -> "g" [] c = "I" -> "i"
       [] c = "L" -> "l" [] c = "M" -> "m" [] c = "N" -> "n" [] c = "O" -> "o"
       [] c = "P" -> "p" [] c = "T" -> "t" [] c = "X" -> "x"]

\* String.prototype.toLowerCase
toLowerCase(s) ==
  [i \in 1..Len(s) |-> IF s[i] \in DOMAIN UpperToLower THEN UpperToLower[s[i]] ELSE s[i]]

Digits == <<"0","1","2","3","4","5","6","7","8","9">>

DigitVal(ch) == (CHOOSE i \in 1..10 : Digits[i] = ch) - 1

IsDigit(ch) == \E i \in 1..10 : Digits[i] = ch

RECURSIVE NumberToString(_)
\* Number.prototype.toString for a non-negative integer (Date.now().toString())
NumberToString(n) ==
  IF n < 10 THEN <<Digits[n + 1]>>
  ELSE NumberToString(n \div 10) \o <<Digits[(n % 10) + 1]>>

NaN == -1

RECURSIVE ParseDigits(_, _, _)
ParseDigits(s, i, acc) ==
  IF i > Len(s) \/ ~IsDigit(s[i]) THEN acc
  ELSE ParseDigits(s, i + 1, acc * 10 + DigitVal(s[i]))

\* parseInt on an unsigned string: the longest prefix of digits, NaN when
\* the string does not start with a digit
parseInt(s) ==
  IF Len(s) = 0 \/ ~IsDigit(s[1]) THEN NaN ELSE ParseDigits(s, 1, 0)

\* ------------------------------------------------------------ documents
\* A ModelConfig carries name, api_type, context_length and the capability
\* flags; the optional flags are record fields that may be missing.  The
\* description and pricing fields, and the document's last_updated, are read
\* by no operation and are left out.
ModelCfg(name, api, ctx, vision, fc) ==
  [name |-> name, api_type |-> api, context_length |-> ctx,
   supports_vision |-> vision, supports_function_calling |-> fc]

\* m extended with the optional field supports_thinking
WithThinking(m, b) ==
  [f \in DOMAIN m \cup {"supports_thinking"} |->
     IF f = "supports_thinking" THEN b ELSE m[f]]

\* m extended with the optional field supports_streaming
WithStreaming(m, b) ==
  [f \in DOMAIN m \cup {"supports_streaming"} |->
     IF f = "supports_streaming" THEN b ELSE m[f]]

\* an object literal with one key
Obj1(k, v) == [x \in {k} |-> v]

\* object spread of two objects with disjoint keys
Merge(a, b) == [x \in DOMAIN a \cup DOMAIN b |-> IF x \in DOMAIN a THEN a[x] ELSE b[x]]

ProviderCfg(name, thinking, models) ==
  [name |-> name, supports_thinking |-> thinking, models |-> models]

\* the providers of the hardcoded dataset
DefaultProviders ==
     [openai |-> ProviderCfg("OpenAI", TRUE,
      Obj1(<<"g","p","t","-","4","o">>,
        WithStreaming(ModelCfg(<<"G","P","T","-","4","o">>, "chat_completions", 128000, TRUE, TRUE), TRUE))),
      anthropic |-> ProviderCfg("Anthropic", TRUE,
      Obj1(<<"c","l","a","u","d","e","-","o","p","u","s","-","4","-","1","-","2","0","2","5","0","8","0","5">>,
        WithStreaming(WithThinking(ModelCfg(<<"C","l","a","u","d","e"," ","O","p","u","s"," ","4",".","1">>, "messages", 200000, TRUE, TRUE), TRUE), TRUE))),
      google |-> ProviderCfg("Google", TRUE,
      Merge(Merge(Merge(Merge(Obj1(<<"g","e","m","i","n","i","-","2",".","5","-","p","r","o">>,
        WithStreaming(WithThinking(ModelCfg(<<"G","e","m","i","n","i"," ","2",".","5"," ","P","r","o">>, "generate_content", 2000000, TRUE, TRUE), TRUE), TRUE)),
      Obj1(<<"g","e","m","i","n","i","-","2",".","5","-","f","l","a","s","h">>,
        WithStreaming(WithThinking(ModelCfg(<<"G","e","m","i","n","i"," ","2",".","5"," ","F","l","a","s","h">>, "generate_content", 1000000, TRUE, TRUE), TRUE), TRUE))),
      Obj1(<<"g","e","m","i","n","i","-","2",".","5","-","f","l","a","s","h","-","l","i","t","e">>,
        WithStreaming(WithThinking(ModelCfg(<<"G","e","m","i","n","i"," ","2",".","5"," ","F","l","a","s","h"," ","L","i","t","e">>, "generate_content", 1000000, TRUE, TRUE), TRUE), TRUE))),
      Obj1(<<"g","e","m","i","n","i","-","2",".","5","-","f","l","a","s","h","-","i","m","a","g","e">>,
        WithStreaming(WithThinking(ModelCfg(<<"G","e","m","i","n","i"," ","2",".","5"," ","F","l","a","s","h"," ","I","m","a","g","e">>, "generate_content", 32000, FALSE, FALSE), FALSE), FALSE))),
      Obj1(<<"g","e","m","i","n","i","-","2",".","0","-","f","l","a","s","h","-","e","x","p">>,
        WithStreaming(WithThinking(ModelCfg(<<"G","e","m","i","n","i"," ","2",".","0"," ","F","l","a","s","h"," ","(","E","x","p","e","r","i","m","e","n","t","a","l",")">>, "generate_content", 1000000, TRUE, TRUE), TRUE), TRUE))))]

\* a dataset that lost its google provider
getDefaultConfig_NoGoogle ==
  [version |-> "1.0.0",
   providers |-> [p \in {"openai", "anthropic"} |-> DefaultProviders[p]]]

\* getDefaultConfig(): the hardcoded dataset
getDefaultConfig == [version |-> "1.0.0", providers |-> DefaultProviders]

\* Two remote documents of the ModelsConfig shape.  DocA marks the model
\* flags against the provider rules (an image model flagged as streaming, a
\* text model flagged as not streaming, a model without the optional flags);
\* DocB has no google and no anthropic provider.
DocA ==
  [version |-> "2.0.0",
   providers |->
     [openai |-> ProviderCfg("OpenAI", TRUE,
      Merge(Obj1(<<"g","p","t","-","5">>,
        WithStreaming(WithThinking(ModelCfg(<<"G","P","T","-","5">>, "responses", 400000, TRUE, TRUE), TRUE), TRUE)),
      Obj1(<<"g","p","t","-","4","o">>,
        ModelCfg(<<"G","P","T","-","4","o">>, "chat_completions", 128000, TRUE, TRUE)))),
      anthropic |-> ProviderCfg("Anthropic", TRUE,
      Obj1(<<"c","l","a","u","d","e","-","o","p","u","s","-","4","-","1","-","2","0","2","5","0","8","0","5">>,
        WithStreaming(WithThinking(ModelCfg(<<"C","l","a","u","d","e"," ","O","p","u","s"," ","4",".","1">>, "messages", 200000, TRUE, TRUE), TRUE), FALSE))),
      google |-> ProviderCfg("Google", TRUE,
      Merge(Merge(Obj1(<<"g","e","m","i","n","i","-","2",".","5","-","p","r","o">>,
        WithStreaming(WithThinking(ModelCfg(<<"G","e","m","i","n","i"," ","2",".","5"," ","P","r","o">>, "generate_content", 2000000, TRUE, TRUE), FALSE), FALSE)),
      Obj1(<<"g","e","m","i","n","i","-","2",".","5","-","f","l","a","s","h","-","i","m","a","g","e">>,
        WithStreaming(WithThinking(ModelCfg(<<"G","e","m","i","n","i"," ","2",".","5"," ","F","l","a","s","h"," ","I","m","a","g","e">>, "generate_content", 32000, FALSE, FALSE), FALSE), TRUE))),
      Obj1(<<"i","m","a","g","e","n","-","4","-","u","l","t","r","a">>,
        ModelCfg(<<"N","a","n","o"," ","B","a","n","a","n","a"," ","I","M","A","G","E">>, "generate_content", 32000, FALSE, FALSE))))]]

DocB ==
  [version |-> "2.1.0",
   providers |->
     [openai |-> ProviderCfg("OpenAI", FALSE,
      Obj1(<<"g","p","t","-","5">>,
        WithStreaming(WithThinking(ModelCfg(<<"G","P","T","-","5">>, "chat_completions", 400000, TRUE, TRUE), FALSE), FALSE)))]]

RemoteDocs == {DocA, DocB}

\* the static list of isOpenAIResponsesAPI's catch branch
responsesAPIModels ==
  {<<"c","h","a","t","g","p","t","-","4","o","-","l","a","t","e","s","t">>,
   <<"g","p","t","-","4","o","-","r","e","a","l","t","i","m","e","-","p","r","e","v","i","e","w">>,
   <<"g","p","t","-","4","o","-","r","e","a","l","t","i","m","e","-","p","r","e","v","i","e","w","-","2","0","2","4","-","1","0","-","0","1">>,
   <<"g","p","t","-","5">>,
   <<"g","p","t","-","5","-","m","i","n","i">>,
   <<"g","p","t","-","5","-","n","a","n","o">>,
   <<"g","p","t","-","5","-","c","h","a","t","-","l","a","t","e","s","t">>,
   <<"g","p","t","-","4","o">>,
   <<"g","p","t","-","4","o","-","m","i","n","i">>,
   <<"g","p","t","-","4",".","1">>,
   <<"g","p","t","-","4",".","1","-","m","i","n","i">>,
   <<"g","p","t","-","4",".","1","-","n","a","n","o">>,
   <<"o","1">>,
   <<"o","1","-","p","r","e","v","i","e","w">>,
   <<"o","1","-","m","i","n","i">>,
   <<"o","3">>,
   <<"o","3","-","m","i","n","i">>,
   <<"o","4","-","m","i","n","i">>}

\* the static list of isGoogleImageModel's catch branch
imageModels ==
  {<<"g","e","m","i","n","i","-","2",".","5","-","f","l","a","s","h","-","i","m","a","g","e">>,
   <<"g","e","m","i","n","i","-","i","m","a","g","e">>,
   <<"i","m","a","g","e","n","-","4">>}

\* the provider and model identifiers the queries are asked about
QueryProviders == {"openai", "anthropic", "google", "mistral"}

QueryModels ==
  {<<"g","p","t","-","5">>,
   <<"g","p","t","-","4","o">>,
   <<"g","e","m","i","n","i","-","2",".","5","-","f","l","a","s","h","-","i","m","a","g","e">>,
   <<"g","e","m","i","n","i","-","2",".","5","-","p","r","o">>,
   <<"i","m","a","g","e","n","-","4","-","u","l","t","r","a">>,
   <<"c","l","a","u","d","e","-","o","p","u","s","-","4","-","1","-","2","0","2","5","0","8","0","5">>,
   <<"a","n","y","-","m","o","d","e","l">>}

s_image == <<"i","m","a","g","e">>

s_gpt_5 == <<"g","p","t","-","5">>

s_any_model == <<"a","n","y","-","m","o","d","e","l">>

s_gemini_2_5_flash_image == <<"g","e","m","i","n","i","-","2",".","5","-","f","l","a","s","h","-","i","m","a","g","e">>

\* ------------------------------------------------------ capability rules
\* null, and the empty object {}
null == [null |-> TRUE]

EmptyObj == [x \in {} |-> null]

\* what a query's "await this.loadConfig()" yields: a ModelsConfig, or a throw
Resolved(cfg) == [threw |-> FALSE, config |-> cfg]

Thrown == [threw |-> TRUE, config |-> null]

\* config.providers[providerId]?.models || {}
getProviderModels(cfg, providerId) ==
  IF providerId \in DOMAIN cfg.providers THEN cfg.providers[providerId].models ELSE EmptyObj

\* models[modelId] || null
getModelConfig(cfg, providerId, modelId) ==
  LET models == getProviderModels(cfg, providerId)
  IN  IF modelId \in DOMAIN models THEN models[modelId] ELSE null

\* modelConfig?.<flag> || false
FlagOrFalse(modelConfig, flag) ==
  IF modelConfig = null THEN FALSE
  ELSE IF flag \in DOMAIN modelConfig THEN modelConfig[flag] ELSE FALSE

isOpenAIResponsesAPI(r, modelId) ==
  IF ~r.threw
  THEN LET openaiModels == getProviderModels(r.config, "openai")
       IN  IF modelId \in DOMAIN openaiModels
           THEN openaiModels[modelId].api_type = "responses"
           ELSE FALSE
  ELSE modelId \in responsesAPIModels

isOpenAIChatCompletionsAPI(r, modelId) == ~isOpenAIResponsesAPI(r, modelId)

isGoogleImageModel(r, modelId) ==
  IF ~r.threw
  THEN LET googleModels == getProviderModels(r.config, "google")
       IN  \/ Includes(modelId, s_image)
           \/ /\ modelId \in DOMAIN googleModels
              /\ Includes(toLowerCase(googleModels[modelId].name), s_image)
  ELSE \E model \in imageModels : Includes(modelId, model)

\* a supportsStreaming that trusts the model's flag for google as well
supportsStreaming_Flag(r, providerId, modelId) ==
  IF ~r.threw
  THEN FlagOrFalse(getModelConfig(r.config, providerId, modelId), "supports_streaming")
  ELSE IF providerId = "openai" \/ providerId = "anthropic" THEN TRUE
  ELSE IF providerId = "google" /\ ~Includes(modelId, s_image) THEN TRUE
  ELSE FALSE

supportsStreaming(r, providerId, modelId) ==
  IF ~r.threw
  THEN LET modelConfig == getModelConfig(r.config, providerId, modelId)
       IN  IF providerId = "google"
           THEN IF Includes(modelId, s_image) THEN FALSE ELSE TRUE
           ELSE FlagOrFalse(modelConfig, "supports_streaming")
  ELSE IF providerId = "openai" \/ providerId = "anthropic" THEN TRUE
  ELSE IF providerId = "google" /\ ~Includes(modelId, s_image) THEN TRUE
  ELSE FALSE

isThinkingModel(r, providerId, modelId) ==
  IF ~r.threw
  THEN FlagOrFalse(getModelConfig(r.config, providerId, modelId), "supports_thinking")
  ELSE FALSE

QueryOps == {"isOpenAIResponsesAPI", "isOpenAIChatCompletionsAPI", "isGoogleImageModel",
             "supportsStreaming", "isThinkingModel"}

\* the value an operation resolves to once its loadConfig has yielded r
Answer(op, r, providerId, modelId) ==
  CASE op = "isOpenAIResponsesAPI"       -> isOpenAIResponsesAPI(r, modelId)
    [] op = "isOpenAIChatCompletionsAPI" -> isOpenAIChatCompletionsAPI(r, modelId)
    [] op = "isGoogleImageModel"         -> isGoogleImageModel(r, modelId)
    [] op = "supportsStreaming"          -> supportsStreaming(r, providerId, modelId)
    [] op = "isThinkingModel"            -> isThinkingModel(r, providerId, modelId)
    [] OTHER                             -> FALSE

\* ---------------------------------------------------------- localStorage
\* a stored string
Str(s) == [str |-> s]

\* JSON.stringify(config): the JSON text of a document
JSONstringify(cfg) == [json |-> cfg]

\* a stored string that is not JSON text
GarbageText == Str(<<"{">>)

\* a stored time that is not a number
GarbageTime == Str(<<"x">>)

\* JSON.parse throws on text that is not JSON
JSONparseThrows(v) == "json" \notin DOMAIN v

JSONparse(v) == v.json

\* truthiness of the value getItem returns (null and "" are falsy)
Truthy(v) == v # null /\ v # Str(<<>>)

\* ---------------------------------------------------------------- state
VARIABLES
  now,              \* Date.now()
  advances,         \* how many times the clock has advanced
  config,           \* this.config: a ModelsConfig or null
  configCacheTime,  \* this.configCacheTime
  refreshTimer,     \* this.refreshTimer: null or the armed interval timer
  destroyed,        \* destroy() has been called on this engine
  ls,               \* localStorage: the two keys of the persisted entry
  lsDenied,         \* access to localStorage throws (storage disabled)
  query,            \* the capability query the page asks (SpecQ)
  calls,            \* the loadConfig invocations in flight
  ret               \* the operation that completed last and its result

vars == <<now, advances, config, configCacheTime, refreshTimer, destroyed,
          ls, lsDenied, query, calls, ret>>

\* the first engine is constructed at this time
StartTime == 1000000

\* ret after the constructor: the memory config it left and the line that
\* loadFromLocalStorage() logged.  After a loadConfig, ret.via is the return
\* statement it left through: "memory" (line 93), "remote" (line 118) or
\* "catch" (lines 125 and 130)
Constructed(cfg, log) ==
  [op |-> "constructor", provider |-> "none", model |-> <<>>,
   config |-> cfg, answer |-> FALSE, via |-> log]

\* ------------------------------------------------------------ construction
\* a load that leaves an expired entry in the store
loadFromLocalStorage_NoPurge(store, denied, t) ==
  LET cachedConfig == store.models_config_cache
      cachedTime == store.models_config_cache_time
      unchanged(log) == [config |-> null, configCacheTime |-> 0, ls |-> store, log |-> log]
  IN  IF denied THEN unchanged("failed")
      ELSE IF ~(Truthy(cachedConfig) /\ Truthy(cachedTime)) THEN unchanged("none")
      ELSE LET parsed == parseInt(cachedTime.str)
               cacheAge == t - parsed
           IN  IF parsed # NaN /\ cacheAge < configCacheTTL
               THEN IF JSONparseThrows(cachedConfig) THEN unchanged("failed")
                    ELSE [config |-> JSONparse(cachedConfig),
                          configCacheTime |-> parsed, ls |-> store, log |-> "loaded"]
               ELSE unchanged("expired")

\* a load that adopts a config whose time key is missing
loadFromLocalStorage_HalfEntry(store, denied, t) ==
  LET cachedConfig == store.models_config_cache
      cachedTime == store.models_config_cache_time
      unchanged(log) == [config |-> null, configCacheTime |-> 0, ls |-> store, log |-> log]
  IN  IF denied THEN unchanged("failed")
      ELSE IF Truthy(cachedConfig) /\ ~Truthy(cachedTime)
      THEN IF JSONparseThrows(cachedConfig) THEN unchanged("failed")
           ELSE [config |-> JSONparse(cachedConfig),
                 configCacheTime |-> 0, ls |-> store, log |-> "loaded"]
      ELSE IF ~(Truthy(cachedConfig) /\ Truthy(cachedTime)) THEN unchanged("none")
      ELSE LET parsed == parseInt(cachedTime.str)
               cacheAge == t - parsed
           IN  IF parsed # NaN /\ cacheAge < configCacheTTL
               THEN IF JSONparseThrows(cachedConfig) THEN unchanged("failed")
                    ELSE [config |-> JSONparse(cachedConfig),
                          configCacheTime |-> parsed, ls |-> store, log |-> "loaded"]
               ELSE [config |-> null, configCacheTime |-> 0,
                     ls |-> [models_config_cache |-> null,
                             models_config_cache_time |-> null],
                     log |-> "expired"]

\* loadFromLocalStorage(): the memory entry and the store after the call, and
\* the line it logged ("loaded", "expired", "failed" from the catch, or "none")
loadFromLocalStorage(store, denied, t) ==
  LET cachedConfig == store.models_config_cache
      cachedTime == store.models_config_cache_time
      unchanged(log) == [config |-> null, configCacheTime |-> 0, ls |-> store, log |-> log]
  IN  IF denied THEN unchanged("failed")
      ELSE IF ~(Truthy(cachedConfig) /\ Truthy(cachedTime)) THEN unchanged("none")
      ELSE LET parsed == parseInt(cachedTime.str)
               cacheAge == t - parsed
           IN  IF parsed # NaN /\ cacheAge < configCacheTTL
               THEN IF JSONparseThrows(cachedConfig) THEN unchanged("failed")
                    ELSE [config |-> JSONparse(cachedConfig),
                          configCacheTime |-> parsed, ls |-> store, log |-> "loaded"]
               ELSE [config |-> null, configCacheTime |-> 0,
                     ls |-> [models_config_cache |-> null,
                             models_config_cache_time |-> null],
                     log |-> "expired"]

\* an interval that is one millisecond longer than TTL
startAutoRefresh_Late(t) == [due |-> t + configCacheTTL + 1]

\* startAutoRefresh(): setInterval(..., configCacheTTL) armed at time t
startAutoRefresh(t) == [due |-> t + configCacheTTL]

EmptyStore == [models_config_cache |-> null, models_config_cache_time |-> null]

Stored(c, t) == [models_config_cache |-> c, models_config_cache_time |-> t]

\* an entry of DocA of age TTL - 1 when the first engine is constructed
FreshStore ==
  Stored(JSONstringify(DocA), Str(NumberToString(StartTime - configCacheTTL + 1)))

\* what the page finds in localStorage when the first engine is constructed:
\* nothing, an entry of age TTL - 1, an entry of age TTL, or a damaged entry
InitialStores ==
  { EmptyStore,
    FreshStore,
    Stored(JSONstringify(DocA), Str(NumberToString(StartTime - configCacheTTL))),
    Stored(GarbageText, Str(NumberToString(StartTime - 1))),
    Stored(JSONstringify(DocA), GarbageTime),
    Stored(JSONstringify(DocA), null) }

\* the constructor: loadFromLocalStorage(), then startAutoRefresh()
Construct(store, t) ==
  LET l == loadFromLocalStorage(store, lsDenied, t)
  IN  /\ config' = l.config
      /\ configCacheTime' = l.configCacheTime
      /\ ls' = l.ls
      /\ refreshTimer' = startAutoRefresh(t)
      /\ destroyed' = FALSE
      /\ calls' = <<>>
      /\ ret' = Constructed(l.config, l.log)

NoQuery == [op |-> "loadConfig", provider |-> "none", model |-> <<>>]

\* the construction of the first engine; a store whose every access throws
\* holds nothing the page could have written
Boot ==
  /\ now = StartTime
  /\ advances = 0
  /\ lsDenied \in BOOLEAN
  /\ \E store \in (IF lsDenied THEN {EmptyStore} ELSE InitialStores) :
       LET l == loadFromLocalStorage(store, lsDenied, StartTime)
       IN  /\ config = l.config
           /\ configCacheTime = l.configCacheTime
           /\ ls = l.ls
           /\ ret = Constructed(l.config, l.log)
  /\ refreshTimer = startAutoRefresh(StartTime)
  /\ destroyed = FALSE
  /\ calls = <<>>

Init == Boot /\ query = NoQuery

\* the page is reloaded: every pending callback is dropped and the module's
\* singleton is constructed again over the same localStorage
Restart ==
  /\ Construct(ls, now)
  /\ UNCHANGED <<now, advances, lsDenied, query>>

\* --------------------------------------------------------------- loadConfig
\* an early return that still trusts an entry of age TTL
UseMemoryCache_Inclusive(forceRefresh, t) ==
  ~forceRefresh /\ config # null /\ (t - configCacheTime <= configCacheTTL)

\* the condition of the early return of loadConfig
UseMemoryCache(forceRefresh, t) ==
  ~forceRefresh /\ config # null /\ (t - configCacheTime < configCacheTTL)

Return(op, providerId, modelId, cfg, via) ==
  [op |-> op, provider |-> providerId, model |-> modelId, config |-> cfg,
   answer |-> Answer(op, Resolved(cfg), providerId, modelId), via |-> via]

\* an invocation of loadConfig that has issued its fetch
Pending(op, providerId, modelId, t) ==
  [pc |-> "fetch", op |-> op, provider |-> providerId, model |-> modelId, start |-> t]

\* calls without its i-th invocation
Without(i) == [k \in 1..(Len(calls) - 1) |-> IF k < i THEN calls[k] ELSE calls[k + 1]]

\* an operation calls loadConfig(forceRefresh) while fewer than cap invocations
\* are in flight: either the early return, or the fetch is issued and the
\* invocation waits for the response
Invoke(cap, op, forceRefresh, providerId, modelId) ==
  /\ Len(calls) < cap
  /\ IF UseMemoryCache(forceRefresh, now)
     THEN /\ ret' = Return(op, providerId, modelId, config, "memory")
          /\ UNCHANGED calls
     ELSE /\ calls' = Append(calls, Pending(op, providerId, modelId, now))
          /\ UNCHANGED ret
  /\ UNCHANGED <<now, advances, config, configCacheTime, refreshTimer, destroyed,
                 ls, lsDenied, query>>

LoadConfig(forceRefresh) == Invoke(MaxCalls, "loadConfig", forceRefresh, "none", <<>>)

\* refreshConfig() returns loadConfig(true)
RefreshConfig == Invoke(MaxCalls, "loadConfig", TRUE, "none", <<>>)

\* the queries whose only argument is the model id
ModelQueryOps == {"isOpenAIResponsesAPI", "isOpenAIChatCompletionsAPI", "isGoogleImageModel"}

\* the queries the page may ask
QueryInputs ==
  { [op |-> op, provider |-> p, model |-> m] :
      op \in QueryOps, p \in QueryProviders \cup {"none"}, m \in QueryModels }

\* the page asks its query; each query awaits loadConfig()
Query == Invoke(1, query.op, FALSE, query.provider, query.model)

\* a tick whose callback does not call refreshConfig()
AutoRefresh_Idle ==
  /\ refreshTimer # null
  /\ now >= refreshTimer.due
  /\ refreshTimer' = [due |-> refreshTimer.due + configCacheTTL]
  /\ UNCHANGED <<now, advances, config, configCacheTime, destroyed, ls,
                 lsDenied, query, calls, ret>>

\* the interval timer fires: the callback calls refreshConfig()
AutoRefresh ==
  /\ refreshTimer # null
  /\ now >= refreshTimer.due
  /\ refreshTimer' = [due |-> refreshTimer.due + configCacheTTL]
  /\ Len(calls) < MaxCalls
  /\ calls' = Append(calls, Pending("loadConfig", "none", <<>>, now))
  /\ UNCHANGED <<now, advances, config, configCacheTime, destroyed, ls,
                 lsDenied, query, ret>>

\* a catch block that always falls back to the default dataset
CatchFallback_Default(cfg) == getDefaultConfig

\* a catch block that returns this.config without looking at it
CatchFallback_NoDefault(cfg) == cfg

\* the catch block of loadConfig
CatchFallback(cfg) == IF cfg # null THEN cfg ELSE getDefaultConfig

\* a catch block that drops the memory entry
Fail_Forgets(i) ==
  /\ ret' = Return(calls[i].op, calls[i].provider, calls[i].model,
                   CatchFallback(config), "catch")
  /\ calls' = Without(i)
  /\ config' = null
  /\ configCacheTime' = 0
  /\ UNCHANGED <<now, advances, refreshTimer, destroyed, ls, lsDenied, query>>

\* a catch block that keeps what it returns as the memory entry
Fail_CachesDefault(i) ==
  /\ ret' = Return(calls[i].op, calls[i].provider, calls[i].model,
                   CatchFallback(config), "catch")
  /\ calls' = Without(i)
  /\ config' = CatchFallback(config)
  /\ UNCHANGED <<now, advances, configCacheTime, refreshTimer, destroyed,
                 ls, lsDenied, query>>

\* the invocation leaves through the catch block: nothing but the result
Fail(i) ==
  /\ ret' = Return(calls[i].op, calls[i].provider, calls[i].model,
                   CatchFallback(config), "catch")
  /\ calls' = Without(i)
  /\ UNCHANGED <<now, advances, config, configCacheTime, refreshTimer, destroyed,
                 ls, lsDenied, query>>

\* the response arrives with status ok: clearTimeout, then response.json() is
\* awaited
FetchResponds(i) ==
  /\ i \in DOMAIN calls
  /\ calls[i].pc = "fetch"
  /\ calls' = [calls EXCEPT ![i].pc = "json"]
  /\ UNCHANGED <<now, advances, config, configCacheTime, refreshTimer,
                 destroyed, ls, lsDenied, query, ret>>

\* the response arrives with a status that is not ok: the throw of line 108
FetchNotOk(i) ==
  /\ i \in DOMAIN calls
  /\ calls[i].pc = "fetch"
  /\ Fail(i)

\* the transport fails before a response arrives
FetchRejects(i) ==
  /\ i \in DOMAIN calls
  /\ calls[i].pc = "fetch"
  /\ Fail(i)

\* the 5 second timer fires before the response: controller.abort()
FetchAborts(i) ==
  /\ i \in DOMAIN calls
  /\ calls[i].pc = "fetch"
  /\ now >= calls[i].start + FetchTimeoutMs
  /\ Fail(i)

\* the body does not parse: response.json() rejects
JsonRejects(i) ==
  /\ i \in DOMAIN calls
  /\ calls[i].pc = "json"
  /\ Fail(i)

SaveOutcomes == {"ok", "throw1", "throw2"}

\* a save that writes the config key and forgets the time key
saveToLocalStorage_KeyOnly(store, denied, cfg, t, outcome) ==
  IF denied \/ outcome = "throw1" THEN store
  ELSE [store EXCEPT !.models_config_cache = JSONstringify(cfg)]

\* a save that keeps an entry that is already stored
saveToLocalStorage_FirstWins(store, denied, cfg, t, outcome) ==
  IF denied \/ outcome = "throw1" \/ store.models_config_cache # null THEN store
  ELSE IF outcome = "throw2"
       THEN [store EXCEPT !.models_config_cache = JSONstringify(cfg)]
       ELSE [models_config_cache |-> JSONstringify(cfg),
             models_config_cache_time |-> Str(NumberToString(t))]

\* saveToLocalStorage(config): the store after the call; a setItem may throw
\* (quota), and every access throws when storage is denied
saveToLocalStorage(store, denied, cfg, t, outcome) ==
  IF denied \/ outcome = "throw1" THEN store
  ELSE IF outcome = "throw2"
       THEN [store EXCEPT !.models_config_cache = JSONstringify(cfg)]
       ELSE [models_config_cache |-> JSONstringify(cfg),
             models_config_cache_time |-> Str(NumberToString(t))]

\* the timestamp loadConfig gives the memory entry of a fetched document:
\* the "now" read at the start of the invocation
EntryTime(start, t) == start

\* the body parses as the remote document doc: the memory entry and the store
\* are replaced
JsonResolves(i, doc, outcome) ==
  /\ i \in DOMAIN calls
  /\ calls[i].pc = "json"
  /\ config' = doc
  /\ configCacheTime' = EntryTime(calls[i].start, now)
  /\ ls' = saveToLocalStorage(ls, lsDenied, doc, now, outcome)
  /\ ret' = Return(calls[i].op, calls[i].provider, calls[i].model, doc, "remote")
  /\ calls' = Without(i)
  /\ UNCHANGED <<now, advances, refreshTimer, destroyed, lsDenied, query>>

\* ------------------------------------------------------------ environment
\* a destroy() that forgets clearInterval
ClearedTimer_Kept(timer) == timer

\* what destroy() leaves in refreshTimer: clearInterval, then null
ClearedTimer(timer) == null

\* a destroy() that also removes the persisted entry
Destroy_ClearsStore ==
  /\ refreshTimer' = ClearedTimer(refreshTimer)
  /\ destroyed' = TRUE
  /\ ls' = [models_config_cache |-> null, models_config_cache_time |-> null]
  /\ UNCHANGED <<now, advances, config, configCacheTime, lsDenied, query, calls, ret>>

Destroy ==
  /\ refreshTimer' = ClearedTimer(refreshTimer)
  /\ destroyed' = TRUE
  /\ UNCHANGED <<now, advances, config, configCacheTime, ls, lsDenied, query, calls, ret>>

\* the times at which an armed timer is due
Deadlines ==
  (IF refreshTimer # null THEN {refreshTimer.due} ELSE {})
    \cup {calls[i].start + FetchTimeoutMs : i \in {k \in DOMAIN calls : calls[k].pc = "fetch"}}

\* time passes by d, or up to the next due timer if that comes first; no time
\* passes while a timer is due and has not fired
Advance(d) ==
  /\ advances < MaxAdvances
  /\ \A t \in Deadlines : t > now
  /\ now' = IF \E t \in Deadlines : t < now + d
            THEN CHOOSE t \in Deadlines : \A u \in Deadlines : t <= u
            ELSE now + d
  /\ advances' = advances + 1
  /\ UNCHANGED <<config, configCacheTime, refreshTimer, destroyed, ls,
                 lsDenied, query, calls, ret>>

Deltas == {1, configCacheTTL}

Slots == 1..MaxCalls

Next ==
  \/ \E f \in BOOLEAN : LoadConfig(f)
  \/ RefreshConfig
  \/ AutoRefresh
  \/ \E i \in Slots : FetchResponds(i)
  \/ \E i \in Slots : FetchNotOk(i)
  \/ \E i \in Slots : FetchRejects(i)
  \/ \E i \in Slots : FetchAborts(i)
  \/ \E i \in Slots : JsonRejects(i)
  \/ \E i \in Slots, d \in RemoteDocs, o \in SaveOutcomes : JsonResolves(i, d, o)
  \/ Destroy
  \/ Restart
  \/ \E d \in Deltas : Advance(d)

Spec == Init /\ [][Next]_vars

\* the capability queries: the page asks one query (or loadConfig() itself),
\* any number of times, one at a time, over the same cache
InitQ ==
  /\ Boot
  /\ query \in {NoQuery} \cup
                {q \in QueryInputs : q.op \in ModelQueryOps <=> q.provider = "none"}

NextQ ==
  \/ Query
  \/ FetchResponds(1)
  \/ FetchRejects(1)
  \/ \E d \in RemoteDocs : JsonResolves(1, d, "ok")
  \/ \E d \in Deltas : Advance(d)

SpecQ == InitQ /\ [][NextQ]_vars

\* ------------------------------------------------------------- liveness
\* the clock of the model stops after MaxAdvances advances; where progress
\* is checked, a call starts only while its timers can still come due
CanAdvance == advances < MaxAdvances

\* the page calls loadConfig; one of the MaxCalls places is left to the tick,
\* which the page's calls cannot delay
StartL(forceRefresh) ==
  /\ CanAdvance
  /\ Len(calls) < MaxCalls - 1
  /\ LoadConfig(forceRefresh)

TickL == CanAdvance /\ AutoRefresh

\* time passes up to the next due timer
Elapse == Advance(configCacheTTL)

\* one engine, never reloaded: the remote end may answer, fail, or stay silent
\* at either stage of a fetch
NextL ==
  \/ \E f \in BOOLEAN : StartL(f)
  \/ TickL
  \/ \E i \in Slots : FetchResponds(i)
  \/ \E i \in Slots : FetchNotOk(i)
  \/ \E i \in Slots : FetchRejects(i)
  \/ \E i \in Slots : FetchAborts(i)
  \/ \E i \in Slots : JsonRejects(i)
  \/ \E i \in Slots, d \in RemoteDocs, o \in SaveOutcomes : JsonResolves(i, d, o)
  \/ Destroy
  \/ Elapse

\* the timers of the runtime fire when they are due and time passes; nothing
\* is assumed of the remote end.  The tick is strongly fair because only the
\* bound MaxCalls can disable a tick that is due
SpecL ==
  /\ Init
  /\ [][NextL]_vars
  /\ WF_vars(Elapse)
  /\ SF_vars(TickL)
  /\ \A i \in Slots : WF_vars(FetchAborts(i))

\* ----------------------------------------------------------- convergence
\* the document the remote end serves
FixedDoc == DocB

\* the page asks for the configuration with either flag
StartC(forceRefresh) == CanAdvance /\ LoadConfig(forceRefresh)

\* the body of the i-th invocation arrives: it is the fixed document, and no
\* setItem throws for lack of space
BodyArrives(i) == JsonResolves(i, FixedDoc, "ok")

\* one engine, never reloaded and never destroyed; the remote end serves
\* FixedDoc and every fetch succeeds; storage is either denied for good or
\* takes every write
NextC ==
  \/ \E f \in BOOLEAN : StartC(f)
  \/ TickL
  \/ \E i \in Slots : FetchResponds(i)
  \/ \E i \in Slots : BodyArrives(i)
  \/ Elapse

\* the timers fire when due, time passes, and every response and every body
\* arrives
SpecC ==
  /\ Init
  /\ [][NextC]_vars
  /\ WF_vars(Elapse)
  /\ SF_vars(TickL)
  /\ \A i \in Slots : WF_vars(FetchResponds(i)) /\ WF_vars(BodyArrives(i))

\* ===================================================================
\* Properties
\* ===================================================================
\* the step in which the fetch of the i-th invocation fails: a status that is
\* not ok, a transport error, the abort of the timeout, or a body that does
\* not parse
FailureStep(i) == FetchNotOk(i) \/ FetchRejects(i) \/ FetchAborts(i) \/ JsonRejects(i)

\* the step in which an operation issues a remote fetch of its own at time t
IssuesFetch(t) ==
  /\ Len(calls') = Len(calls) + 1
  /\ \A k \in DOMAIN calls : calls'[k] = calls[k]
  /\ calls'[Len(calls')].pc = "fetch"
  /\ calls'[Len(calls')].start = t
  /\ ret' = ret

RequiredModelFields ==
  {"name", "api_type", "context_length", "supports_vision", "supports_function_calling"}

\* v has the shape of a ModelsConfig
IsModelsConfig(v) ==
  /\ v # null
  /\ {"version", "providers"} \subseteq DOMAIN v
  /\ \A p \in DOMAIN v.providers :
       /\ {"name", "supports_thinking", "models"} \subseteq DOMAIN v.providers[p]
       /\ \A m \in DOMAIN v.providers[p].models :
            RequiredModelFields \subseteq DOMAIN v.providers[p].models[m]

\* the number the stored time starts with, NaN when there is none
StoredTime ==
  IF ls.models_config_cache_time # null /\ "str" \in DOMAIN ls.models_config_cache_time
  THEN parseInt(ls.models_config_cache_time.str)
  ELSE NaN

\* the stored time is the decimal string of w
StoredTimeIs(w) == w # NaN /\ ls.models_config_cache_time = Str(NumberToString(w))

\* ------------------------------------------------------------------- C1
\* C1: loadConfig(false) called at time now with a memory entry of timestamp
\* t returns the held config, issues no fetch and leaves the store alone
\* exactly when now - t < 600000; at now - t >= 600000, or without a memory
\* entry, it issues a remote fetch.
C1_FreshnessGate ==
  [][ LoadConfig(FALSE) =>
        IF config # null /\ now - configCacheTime < 600000
        THEN /\ ret'.op = "loadConfig"
             /\ ret'.via = "memory"
             /\ ret'.config = config
             /\ calls' = calls
             /\ ls' = ls
        ELSE IssuesFetch(now) ]_vars

\* the entry was served from memory, and at age 600000 exactly a
\* loadConfig(false) has issued a fetch
C1_Witness ==
  /\ config # null
  /\ ret.op = "loadConfig"
  /\ ret.via = "memory"
  /\ ret.config = config
  /\ now - configCacheTime = 600000
  /\ Len(calls) = 1
  /\ calls[1].pc = "fetch"
  /\ calls[1].start = now

\* ------------------------------------------------------------------- C2
\* C2: when a remote fetch fails in any way while a memory entry exists, the
\* call returns that memory config, not the default dataset, and the memory
\* config, the memory timestamp and both persisted keys stay as they were.
C2_StaleServesOnFailure ==
  [][ \A i \in Slots :
        (FailureStep(i) /\ config # null) =>
          /\ ret'.via = "catch"
          /\ ret'.config = config
          /\ ret'.config # getDefaultConfig
          /\ config' = config
          /\ configCacheTime' = configCacheTime
          /\ ls' = ls ]_vars

\* a failed fetch has just served an entry that is stale
C2_Witness ==
  /\ config # null
  /\ now - configCacheTime >= 600000
  /\ ret.via = "catch"
  /\ ret.config = config

\* ------------------------------------------------------------------- C3
\* C3: as long as no memory entry exists (nothing persisted, or the persisted
\* entry not adopted) and every fetch has failed, every call that has
\* completed returned the default dataset, whose version is "1.0.0" and whose
\* providers include openai, anthropic and google.
C3_FallbackChain ==
  (config = null /\ ret.op # "constructor") =>
     /\ ret.via = "catch"
     /\ ret.config = getDefaultConfig
     /\ ret.config.version = "1.0.0"
     /\ {"openai", "anthropic", "google"} \subseteq DOMAIN ret.config.providers

\* the persisted entry was not adopted at startup (its config does not
\* parse), the fetch failed, and the call returned the default dataset
C3_Witness ==
  /\ ls.models_config_cache = GarbageText
  /\ config = null
  /\ ret.op = "loadConfig"
  /\ ret.via = "catch"
  /\ ret.config.version = "1.0.0"

\* ------------------------------------------------------------------- C4
\* C4: every loadConfig/refreshConfig call that completes, completes with a
\* value, whatever failed (transport, timeout, status, body, storage), and the
\* value has the shape of a ModelsConfig: the document just fetched, the
\* memory config, or the default dataset.
C4_NoFailureEscapes ==
  [][ /\ (ret' # ret /\ ret'.op # "constructor") =>
           /\ IsModelsConfig(ret'.config)
           /\ ret'.via = "remote" => ret'.config = config' /\ ret'.config \in RemoteDocs
           /\ ret'.via = "memory" => ret'.config = config
           /\ ret'.via = "catch" =>
                ret'.config = (IF config = null THEN getDefaultConfig ELSE config)
      /\ (Len(calls') < Len(calls) /\ ret'.op # "constructor") =>
           /\ Len(calls') = Len(calls) - 1
           /\ ret'.via \in {"remote", "catch"}
           /\ IsModelsConfig(ret'.config) ]_vars

\* storage is denied, the fetch failed, and the call still returned a dataset
C4_Witness ==
  /\ lsDenied
  /\ config = null
  /\ ret.op = "loadConfig"
  /\ ret.via = "catch"
  /\ IsModelsConfig(ret.config)

\* ------------------------------------------------------------------- C5
\* C5 as claimed: after a successful fetch of C the memory entry and the
\* persisted store both hold C, and an engine that adopted the persisted
\* entry at construction (construction within TTL of the write) answers its
\* first loadConfig(false) with C and without a fetch.
C5_WriteBackRoundTrip_Claimed ==
  [][ /\ \A i \in Slots, d \in RemoteDocs, o \in SaveOutcomes :
           (ret'.via = "remote" /\ JsonResolves(i, d, o)) =>
             /\ config' = d
             /\ ls'.models_config_cache = JSONstringify(d)
      /\ (ret = Constructed(config, "loaded") /\ calls = <<>> /\ LoadConfig(FALSE)) =>
           /\ ret'.via = "memory"
           /\ ret'.config = config
           /\ calls' = calls ]_vars

\* C5 amended: after a successful fetch of C the memory entry holds C; when
\* no write to the store fails, the store holds C with the time of the write;
\* an engine constructed over a store holding C less than TTL after the
\* stored time adopts C with that time; and its first loadConfig(false), when
\* called less than TTL after the stored time, returns C without a fetch.
C5_WriteBackRoundTrip ==
  [][ /\ \A i \in Slots, d \in RemoteDocs, o \in SaveOutcomes :
           (ret'.via = "remote" /\ JsonResolves(i, d, o)) =>
             /\ config' = d
             /\ (o = "ok" /\ ~lsDenied) =>
                  /\ ls' = Stored(JSONstringify(d), Str(NumberToString(now)))
                  /\ parseInt(ls'.models_config_cache_time.str) = now
      /\ \A d \in RemoteDocs :
           ( /\ ret'.op = "constructor"
             /\ ~lsDenied
             /\ ls.models_config_cache = JSONstringify(d)
             /\ StoredTimeIs(StoredTime)
             /\ now - StoredTime < 600000
             /\ Restart ) =>
               /\ config' = d
               /\ configCacheTime' = StoredTime
               /\ ret' = Constructed(d, "loaded")
               /\ ls' = ls
      /\ ( /\ ret = Constructed(config, "loaded")
           /\ calls = <<>>
           /\ now - configCacheTime < 600000
           /\ LoadConfig(FALSE) ) =>
             /\ ret'.via = "memory"
             /\ ret'.config = config
             /\ calls' = calls ]_vars

\* DocB was fetched and written at StartTime, the page was reloaded one
\* millisecond later, the new engine adopted DocB with the time of the write
\* and served it from memory
C5_Witness ==
  /\ refreshTimer # null
  /\ refreshTimer.due = StartTime + 1 + 600000
  /\ config = DocB
  /\ configCacheTime = StartTime
  /\ ls = Stored(JSONstringify(DocB), Str(NumberToString(StartTime)))
  /\ ret.op = "loadConfig"
  /\ ret.via = "memory"
  /\ ret.config = DocB

\* ------------------------------------------------------------------- C6
\* C6: when an engine is constructed over a persisted entry whose age
\* (construction time minus persisted timestamp) is >= 600000, the entry is
\* not adopted (no memory entry), both persisted keys are removed, and the
\* first loadConfig(false) issues a remote fetch.
C6_StartupPurge ==
  /\ []((ret.op = "constructor" /\ ret.via = "expired") =>
          (config = null /\ configCacheTime = 0 /\ ls = EmptyStore))
  /\ [][ /\ ( /\ ret'.op = "constructor"
              /\ Truthy(ls.models_config_cache)
              /\ Truthy(ls.models_config_cache_time)
              /\ StoredTime # NaN
              /\ now - StoredTime >= 600000
              /\ Restart ) =>
                /\ config' = null
                /\ configCacheTime' = 0
                /\ ls'.models_config_cache = null
                /\ ls'.models_config_cache_time = null
                /\ ret' = Constructed(null, "expired")
         /\ (ret.op = "constructor" /\ ret.via = "expired" /\ LoadConfig(FALSE)) =>
              IssuesFetch(now) ]_vars

\* the page was reloaded when the persisted entry was exactly 600000 old:
\* nothing was adopted, the store is empty, and the first loadConfig(false)
\* has issued its fetch
C6_Witness ==
  /\ ret = Constructed(null, "expired")
  /\ refreshTimer # null
  /\ refreshTimer.due = StartTime + 1 + 600000
  /\ config = null
  /\ ls = EmptyStore
  /\ Len(calls) = 1
  /\ calls[1].pc = "fetch"
  /\ calls[1].start = StartTime + 1

\* ------------------------------------------------------------------- C7
\* C7: destroy() can be called in every state; a second destroy() changes
\* nothing; and once an engine is destroyed its timer is released and the
\* scheduler never calls refreshConfig again, whatever loadConfig and
\* refreshConfig calls follow.
C7_IdempotentTeardown ==
  /\ [](destroyed => refreshTimer = null)
  /\ [][ /\ destroyed => ~AutoRefresh
         /\ (destroyed /\ Destroy) => UNCHANGED vars
         /\ (destroyed /\ ~destroyed') => (ret'.op = "constructor" /\ calls' = <<>>) ]_vars

\* the engine was destroyed, the time at which its timer would have fired has
\* come, no tick has fired, and a loadConfig call made after the teardown is
\* waiting for its fetch
C7_Witness ==
  /\ destroyed
  /\ refreshTimer = null
  /\ now >= StartTime + 600000
  /\ ret.op = "constructor"
  /\ Len(calls) = 1
  /\ calls[1].start = now

\* ------------------------------------------------------------------- C8
\* the provider a query looks its model up under
QueriedProvider ==
  IF ret.op \in {"isOpenAIResponsesAPI", "isOpenAIChatCompletionsAPI"} THEN "openai"
  ELSE IF ret.op = "isGoogleImageModel" THEN "google"
  ELSE ret.provider

\* C8 as claimed: every capability query answers with its static heuristic
\* whenever the queried provider/model is absent from the configuration that
\* loadConfig resolved to, and with the looked-up value when the model is
\* present; in particular, over the default dataset (remote unreachable),
\* isOpenAIResponsesAPI("gpt-5") is true and supportsStreaming("openai", m) is
\* true for a model m that is not in the dataset.
C8_HeuristicFallbackScope ==
  ret.op \in QueryOps =>
    LET absent == getModelConfig(ret.config, QueriedProvider, ret.model) = null
    IN  /\ absent => ret.answer = Answer(ret.op, Thrown, ret.provider, ret.model)
        /\ ~absent => ret.answer = Answer(ret.op, Resolved(ret.config), ret.provider, ret.model)
        /\ ( /\ ret.via = "catch"
             /\ ret.config = getDefaultConfig
             /\ ret.op = "isOpenAIResponsesAPI"
             /\ ret.model = s_gpt_5 ) => ret.answer = TRUE
        /\ ( /\ ret.via = "catch"
             /\ ret.config = getDefaultConfig
             /\ ret.op = "supportsStreaming"
             /\ ret.provider = "openai"
             /\ absent ) => ret.answer = TRUE

\* the remote document was unreachable, loadConfig resolved to the default
\* dataset, which has no gpt-5, and isOpenAIResponsesAPI("gpt-5") answered
\* false although gpt-5 is in the static list
C8_Witness ==
  /\ ret.op = "isOpenAIResponsesAPI"
  /\ ret.model = s_gpt_5
  /\ ret.via = "catch"
  /\ ret.config = getDefaultConfig
  /\ getModelConfig(ret.config, "openai", s_gpt_5) = null
  /\ s_gpt_5 \in responsesAPIModels
  /\ ret.answer = FALSE

\* ------------------------------------------------------------------- C9
\* the model id contains "image"
ContainsImage(m) ==
  \E k \in 1..(Len(m) - 4) : SubSeq(m, k, k + 4) = <<"i", "m", "a", "g", "e">>

\* the supports_streaming flag of provider p's model m in cfg, FALSE when the
\* provider, the model or the flag is missing
StreamingFlag(cfg, p, m) ==
  /\ p \in DOMAIN cfg.providers
  /\ m \in DOMAIN cfg.providers[p].models
  /\ "supports_streaming" \in DOMAIN cfg.providers[p].models[m]
  /\ cfg.providers[p].models[m].supports_streaming

OverlappingCall(forceRefresh) ==
  /\ Len(calls) >= 1
  /\ forceRefresh \/ config = null \/ now - configCacheTime >= 600000
  /\ LoadConfig(forceRefresh)

\* C10 as claimed: calls that overlap are not coalesced, each issues a fetch
\* of its own; and whenever a fetch succeeds, in whatever order the calls
\* started, the memory config and the persisted config both become the
\* document of that call, so that both end as the document of the call that
\* completed last.
C10_LastWriteWins_Claimed ==
  [][ /\ \A f \in BOOLEAN : OverlappingCall(f) => IssuesFetch(now)
      /\ \A i \in Slots, d \in RemoteDocs, o \in SaveOutcomes :
           (ret'.via = "remote" /\ JsonResolves(i, d, o)) =>
             /\ ret'.config = d
             /\ config' = d
             /\ ls'.models_config_cache = JSONstringify(d) ]_vars

\* C10 amended: calls that overlap are not coalesced, each issues a fetch of
\* its own; whenever a fetch succeeds, in whatever order the calls started,
\* the memory config becomes the document of that call, and the persisted
\* config becomes that document when the write of the config key does not
\* throw; when it throws, the persisted config stays as it was.
C10_LastWriteWins ==
  [][ /\ \A f \in BOOLEAN : OverlappingCall(f) => IssuesFetch(now)
      /\ \A i \in Slots, d \in RemoteDocs, o \in SaveOutcomes :
           (ret'.via = "remote" /\ JsonResolves(i, d, o)) =>
             /\ ret'.config = d
             /\ config' = d
             /\ IF o # "throw1" /\ ~lsDenied
                THEN ls'.models_config_cache = JSONstringify(d)
                ELSE ls'.models_config_cache = ls.models_config_cache ]_vars

\* two calls overlapped, each with a fetch of its own: the one that started
\* second has completed first with DocA, which the memory entry and the store
\* now hold, while the one that started first still awaits its body
C10_Witness ==
  /\ Len(calls) = 1
  /\ calls[1].start = StartTime
  /\ calls[1].pc = "json"
  /\ ret.via = "remote"
  /\ ret.config = DocA
  /\ config = DocA
  /\ configCacheTime = StartTime + 1
  /\ ls = Stored(JSONstringify(DocA), Str(NumberToString(StartTime + 1)))

\* ------------------------------------------------------------------ C11
\* C11 as claimed, in its most favourable case (storage accessible, no write
\* fails): after every successful remote fetch the persisted store holds the
\* config of the memory entry and the persisted timestamp equals the memory
\* entry's timestamp, however much time passed between the start of the call
\* and the arrival of the response.
C11_ReplacedTogether ==
  [][ \A i \in Slots, d \in RemoteDocs :
        (ret'.via = "remote" /\ ~lsDenied /\ JsonResolves(i, d, "ok")) =>
          /\ ls'.models_config_cache = JSONstringify(config')
          /\ ls'.models_config_cache_time = Str(NumberToString(configCacheTime')) ]_vars

\* a call that started at StartTime completed one millisecond later with
\* DocB, every write succeeded, and the persisted timestamp (the time of the
\* write) is not the memory timestamp (the time the call started)
C11_Witness ==
  /\ calls = <<>>
  /\ now = StartTime + 1
  /\ ret.via = "remote"
  /\ config = DocB
  /\ configCacheTime = StartTime
  /\ ls = Stored(JSONstringify(DocB), Str(NumberToString(StartTime + 1)))
  /\ StoredTime # configCacheTime

\* ------------------------------------------------------------------ C12
\* C12 as claimed: with timers that fire when due, every loadConfig or
\* refreshConfig call that was started eventually returns, also when the
\* transport never answers and when the response has arrived but its body
\* never finishes: whenever calls are in flight, eventually none is.
C12_EveryResolveCompletes == (calls # <<>>) ~> (calls = <<>>)

\* the response of a call arrived, its body has not, and the time at which the
\* 5000 ms timer of the call would have fired has passed
C12_Witness ==
  /\ Len(calls) = 1
  /\ calls[1].pc = "json"
  /\ now >= calls[1].start + 5000
  /\ advances = MaxAdvances

\* ------------------------------------------------------------------ C13
\* C13: the scheduler is armed at construction for construction time + 600000
\* and, until destroy(), stays armed with its next tick at most 600000 away;
\* each tick fires at its due time, 600000 after the previous one, and issues
\* a remote fetch whether or not the memory entry is fresh, changing nothing
\* else; a fetch that fails changes neither the memory entry, the store nor
\* the timer; and only a tick, destroy() or a construction changes the timer.
C13_UnconditionalPeriodicRefresh ==
  /\ refreshTimer = [due |-> StartTime + 600000]
  /\ [](~destroyed =>
          /\ refreshTimer # null
          /\ now <= refreshTimer.due
          /\ refreshTimer.due <= now + 600000)
  /\ [][ /\ (ret'.op = "constructor" /\ calls' = <<>> /\ Restart) =>
              refreshTimer' = [due |-> now + 600000]
         /\ (refreshTimer' # refreshTimer /\ AutoRefresh) =>
              /\ ~destroyed
              /\ now = refreshTimer.due
              /\ refreshTimer' = [due |-> refreshTimer.due + 600000]
              /\ IssuesFetch(now)
              /\ config' = config
              /\ configCacheTime' = configCacheTime
              /\ ls' = ls
         /\ \A i \in Slots :
              (ret'.via = "catch" /\ FailureStep(i)) =>
                /\ config' = config
                /\ configCacheTime' = configCacheTime
                /\ ls' = ls
                /\ refreshTimer' = refreshTimer
                /\ destroyed' = destroyed
         /\ (refreshTimer' # refreshTimer) => (AutoRefresh \/ Destroy \/ Restart) ]_vars

\* an entry fetched at StartTime + 1 is still fresh at StartTime + 600000,
\* when the first tick fired: the tick has issued its fetch all the same and
\* the next tick is due 600000 later
C13_Witness ==
  /\ now = StartTime + 600000
  /\ config # null
  /\ configCacheTime = StartTime + 1
  /\ now - configCacheTime < 600000
  /\ ~destroyed
  /\ refreshTimer = [due |-> StartTime + 2 * 600000]
  /\ Len(calls) = 1
  /\ calls[1].pc = "fetch"
  /\ calls[1].start = now

\* ------------------------------------------------------------------ C14
\* C14 as claimed: when destroy() is not called, the remote document is fixed
\* and every fetch succeeds, eventually the memory entry and the persisted
\* store both hold the document and keep holding it, whatever calls and
\* overlapping fetches are interleaved with the ticks.
C14_Convergence_Claimed ==
  <>[](config = FixedDoc /\ ls.models_config_cache = JSONstringify(FixedDoc))

\* C14 amended: when destroy() is not called, the remote document is fixed and
\* every fetch succeeds, eventually the memory entry holds the document and
\* keeps holding it; the persisted store does so as well when storage is
\* accessible and its writes succeed.
C14_Convergence ==
  <>[](config = FixedDoc /\ (~lsDenied => ls.models_config_cache = JSONstringify(FixedDoc)))

\* the first tick has come, its fetch has succeeded, and the memory entry and
\* the store hold the fixed document in place of the one adopted at startup
C14_Witness ==
  /\ now >= StartTime + 600000
  /\ refreshTimer = [due |-> StartTime + 2 * 600000]
  /\ calls = <<>>
  /\ ~lsDenied
  /\ ret.via = "remote"
  /\ config = FixedDoc
  /\ configCacheTime = StartTime + 600000
  /\ ls.models_config_cache = JSONstringify(FixedDoc)

\* ------------------------------------------------------------------ C15
\* C15: an engine that has a memory entry has one in every later state: only
\* the construction of a new engine leaves the memory without an entry; and
\* every other step that changes the memory config or the memory timestamp
\* is the success of a remote fetch, which sets both in that one step: the
\* config to the fetched document, the timestamp to the start of the call.
C15_MemoryEntryNeverLost ==
  [][ /\ (config # null /\ config' = null) => Restart
      /\ ( /\ config' # config \/ configCacheTime' # configCacheTime
           /\ ~(ret'.op = "constructor" /\ calls' = <<>> /\ Restart) ) =>
             \E i \in DOMAIN calls :
               /\ calls[i].pc = "json"
               /\ config' \in RemoteDocs
               /\ configCacheTime' = calls[i].start
               /\ ret'.via = "remote"
               /\ ret'.config = config'
               /\ calls' = Without(i) ]_vars

\* the engine was destroyed, its entry is stale, a fetch has failed, and the
\* entry is still there and was served
C15_Witness ==
  /\ destroyed
  /\ config # null
  /\ now - configCacheTime >= 600000
  /\ ret.via = "catch"
  /\ ret.config = config
  /\ calls = <<>>

\* ------------------------------------------------------------------ C16
\* C16: every step that changes a persisted key is either the success of a
\* remote fetch, which sets the config key to the fetched document and the
\* time key to the time of the write, or the purge of an expired entry at
\* construction, which removes both keys; memory hits, failed fetches, ticks,
\* calls being issued and destroy() leave both keys as they were.
C16_StoreWrittenOnlyOnSuccess ==
  [][ (ls' # ls) =>
        \/ /\ ret'.via = "remote"
           /\ ~lsDenied
           /\ \E i \in DOMAIN calls : calls[i].pc = "json" /\ calls' = Without(i)
           /\ ls'.models_config_cache = JSONstringify(ret'.config)
           /\ ls'.models_config_cache_time \in
                {ls.models_config_cache_time, Str(NumberToString(now))}
        \/ /\ ret'.op = "constructor"
           /\ ~lsDenied
           /\ Truthy(ls.models_config_cache)
           /\ Truthy(ls.models_config_cache_time)
           /\ StoredTime # NaN
           /\ now - StoredTime >= 600000
           /\ ls'.models_config_cache = null
           /\ ls'.models_config_cache_time = null
           /\ Restart ]_vars

\* the entry found at startup went stale and was served after a failed
\* fetch, and the engine was destroyed: the store still holds what it held at
\* startup
C16_Witness ==
  /\ destroyed
  /\ ls = FreshStore
  /\ config = DocA
  /\ now - configCacheTime >= 600000
  /\ ret.via = "catch"
  /\ ret.config = DocA

\* ------------------------------------------------------------------ C17
\* C17 as claimed: when a remote fetch succeeds with document C and the write
\* to the store fails on either key, the call still returns C, the memory
\* entry becomes C with the timestamp of the call, and the store is left with
\* a consistent pair: what it held before, or nothing; never the new config
\* with the old timestamp.
C17_SaveFailure ==
  [][ \A i \in Slots, d \in RemoteDocs, o \in {"throw1", "throw2"} :
        (ret'.via = "remote" /\ JsonResolves(i, d, o)) =>
          /\ ret'.config = d
          /\ config' = d
          /\ configCacheTime' = calls[i].start
          /\ ls' = ls \/ ls' = EmptyStore ]_vars

\* DocB was fetched over a store holding DocA, the write of the config key
\* went through and the write of the time key threw: the store pairs DocB
\* with the timestamp of DocA
C17_Witness ==
  /\ ret.via = "remote"
  /\ ret.config = DocB
  /\ config = DocB
  /\ ls.models_config_cache = JSONstringify(DocB)
  /\ ls.models_config_cache_time = FreshStore.models_config_cache_time
  /\ parseInt(ls.models_config_cache_time.str) < configCacheTime

\* ------------------------------------------------------------------ C18
\* reading the store throws, or one key only is present, or the config that
\* is stored does not parse
LoadFails ==
  \/ lsDenied
  \/ Truthy(ls.models_config_cache) /\ ~Truthy(ls.models_config_cache_time)
  \/ ~Truthy(ls.models_config_cache) /\ Truthy(ls.models_config_cache_time)
  \/ /\ Truthy(ls.models_config_cache)
     /\ Truthy(ls.models_config_cache_time)
     /\ "json" \notin DOMAIN ls.models_config_cache

\* C18: when reading the store throws, or only one of the two keys is
\* present, or the stored config does not parse, the construction completes
\* with no memory entry (config null, timestamp 0) and with the scheduler
\* armed, and the first loadConfig(false) issues a remote fetch.
C18_LoadFailureIsAbsent ==
  /\ []((ret.op = "constructor" /\ ret.via \in {"failed", "none"}) =>
          (config = null /\ configCacheTime = 0))
  /\ [][ /\ (ret'.op = "constructor" /\ calls' = <<>> /\ LoadFails /\ Restart) =>
              /\ config' = null
              /\ configCacheTime' = 0
              /\ refreshTimer' = [due |-> now + 600000]
              /\ ~destroyed'
         /\ (ret.op = "constructor" /\ config = null /\ LoadConfig(FALSE)) =>
              IssuesFetch(now) ]_vars

\* the store holds the config key without the time key; the page was
\* reloaded one millisecond after the key was written, the new engine has no
\* memory entry, its scheduler is armed, and its first loadConfig(false) has
\* issued a fetch
C18_Witness ==
  /\ ret.op = "constructor"
  /\ config = null
  /\ configCacheTime = 0
  /\ ~lsDenied
  /\ ls = Stored(JSONstringify(DocB), null)
  /\ refreshTimer = [due |-> StartTime + 1 + 600000]
  /\ Len(calls) = 1
  /\ calls[1].pc = "fetch"
  /\ calls[1].start = StartTime + 1

\* ------------------------------------------------------------------ C19
\* C19 as claimed: the timestamp of an engine's memory entry is never later
\* than the current time, and every step other than the construction of a
\* new engine leaves it where it was or raises it, also when overlapping
\* fetches complete in another order than they started.
C19_TimestampNeverDecreases ==
  /\ [](configCacheTime <= now)
  /\ [][ ~(ret'.op = "constructor" /\ calls' = <<>> /\ Restart) =>
           configCacheTime' >= configCacheTime ]_vars

\* the call that started second has completed with DocB and the memory entry
\* carries its start time; the call that started before it has its response
\* and awaits its body, which will set the timestamp back to its own start
C19_Witness ==
  /\ Len(calls) = 1
  /\ calls[1].pc = "json"
  /\ calls[1].start < configCacheTime
  /\ ret.via = "remote"
  /\ ret.config = DocB
  /\ config = DocB

\* ------------------------------------------------------------------ C20
\* C20: a call that fails while no memory entry exists returns the default
\* dataset and leaves the memory entry absent and the store untouched; while
\* no memory entry exists, every loadConfig(false) and every capability query
\* issues a remote fetch of its own; a fetch that succeeds makes its document
\* the memory entry, and from then on no call returns the default dataset.
C20_DefaultNeverCached ==
  [][ /\ (ret'.via = "catch" /\ config = null /\ FailureStep(1)) =>
           /\ ret'.config = getDefaultConfig
           /\ config' = null
           /\ configCacheTime' = configCacheTime
           /\ ls' = ls
      /\ (config = null /\ Query) => IssuesFetch(now)
      /\ \A d \in RemoteDocs :
           (ret'.via = "remote" /\ JsonResolves(1, d, "ok")) =>
             (config' = d /\ d # getDefaultConfig)
      /\ (config # null /\ ret' # ret) =>
           /\ ret'.config # getDefaultConfig
           /\ ret'.config \in {config, config'} ]_vars

\* a capability query was answered over the default dataset, no memory entry
\* exists, and the next query has issued a fetch of its own
C20_Witness ==
  /\ config = null
  /\ ret.op \in QueryOps
  /\ ret.via = "catch"
  /\ ret.config = getDefaultConfig
  /\ Len(calls) = 1
  /\ calls[1].pc = "fetch"
  /\ calls[1].op = ret.op
====
